---- MODULE Spec2Model ----
\* The Ayu arbiter (arbiter.go): runTournament schedules matches, runMatch
\* referees one match between two spawned player programs through pipes.
\* The game engine (package ayu) is outside the source tree; it is modelled
\* by a small take-away game that honours the GameState/Game interfaces.
EXTENDS Integers, Sequences, FiniteSets, TLC

\* ---------------------------------------------------------------- bounds
MaxPlayers == 3     \* len(commands) ranges over 2..MaxPlayers
MaxRounds == 2      \* rounds ranges over 1..MaxRounds
MaxPile == 3        \* size of the engine's initial position
MaxWork == 6        \* matches * initial pile of one tournament
ReadTicks == 1      \* ticks a blocking read takes: time is counted in reads

Slots == 0 .. 1
NL == "\n"

\* ---------------------------------------------------------------- engine
\* GameState: pile of stones, a move takes 1 or 2; the score of a player is
\* the number of stones it took.
CreateState(pile) == [pile |-> pile, taken |-> [s \in Slots |-> 0], turn |-> 0]

Over(g) == g.pile = 0

EngineNext(g) == g.turn

ListMoves(g) == {m \in 1 .. 2 : m <= g.pile}

\* Execute: <<accepted, state after>>; a rejected move leaves the state alone.
Execute(g, m) ==
    IF m \in ListMoves(g)
    THEN <<TRUE, [pile |-> g.pile - m,
                  taken |-> [g.taken EXCEPT ![g.turn] = @ + m],
                  turn |-> 1 - g.turn]>>
    ELSE <<FALSE, g>>

Scores(g) == g.taken

\* move.String(): the canonical text of a move.
MoveString(m) == IF m = 1 THEN <<"1">> ELSE IF m = 2 THEN <<"2">> ELSE <<"3">>

\* ParseMove: <<move, ok>>; the digits 1..3 are well-formed moves.
ParseMove(s) ==
    IF s = <<"1">> THEN <<1, TRUE>>
    ELSE IF s = <<"2">> THEN <<2, TRUE>>
    ELSE IF s = <<"3">> THEN <<3, TRUE>>
    ELSE <<0, FALSE>>

\* ---------------------------------------------------------------- players
\* What a read of a player's output can return: a line ending in a newline,
\* or an error (EOF, broken pipe).
Lines == {<<"1", NL>>, <<"2", NL>>, <<"3", NL>>, <<"x", NL>>}
ReadError == <<>>
Responses == Lines \cup {ReadError}

\* fmt.Fprint in place of fmt.Fprintln: no newline.
FprintNoNewline(text) == text

\* fmt.Fprintln(w, text): the text and a newline.
Fprintln(text) == Append(text, NL)
StartLine == Fprintln(<<"Start">>)
QuitLine == Fprintln(<<"Quit">>)

\* runPlayer: every error return yields (nil, nil, nil, err).
SpawnOutcomes == {"ok", "ErrInvalid", "LookPath", "Getwd", "StdinPipe",
                  "StdoutPipe", "Start"}
runPlayer(outcome) ==
    IF outcome = "ok"
    THEN [cmd |-> "running", stdin |-> "open", stdout |-> "open", err |-> FALSE]
    ELSE [cmd |-> "nil", stdin |-> "nil", stdout |-> "nil", err |-> TRUE]

\* ---------------------------------------------------------------- state
VARIABLES
    numPlayers,   \* len(commands)
    rounds,       \* -rounds
    firstOnly,    \* -single
    initialPile,  \* the position game.CreateState() returns
    pc,           \* position of the arbiter process
    r, i, j,      \* loop variables of runTournament
    n,            \* results filled so far
    results,      \* results[1..n] (the Go slice is 0-based)
    result,       \* the Result runMatch is building
    cmds, writers, readers,
    gamestate, over,
    k,            \* index of the range loops of runMatch
    alive,        \* spawned processes not yet waited for: <<match, slot>>
    io,           \* per slot, the reads and writes on its pipes, in order
    lastTurn,     \* what the latest iteration of the turn loop did
    history,      \* the moves the game state accepted in this match, in order
    turns,        \* iterations of the turn loop in this match
    numGames,     \* main: games per player
    totalPoints, gamesWon, gamesTied, gamesLost, gamesFailed,
    timeUsed, timeMax, winLoss, pairScore,
    pointsPlayers \* main: the IntPairSlice of the ranking

vars == <<numPlayers, rounds, firstOnly, initialPile, pc, r, i, j, n, results,
          result, cmds, writers, readers, gamestate, over, k, alive, io,
          lastTurn, history, turns, numGames, totalPoints, gamesWon,
          gamesTied, gamesLost, gamesFailed, timeUsed, timeMax, winLoss,
          pairScore, pointsPlayers>>

config == <<numPlayers, rounds, firstOnly, initialPile>>
loopvars == <<r, i, j, n, results>>
mainvars == <<numGames, totalPoints, gamesWon, gamesTied, gamesLost,
              gamesFailed, timeUsed, timeMax, winLoss, pairScore,
              pointsPlayers>>

NoTurn == [mover |-> 0, kind |-> "none", move |-> 0, forwarded |-> FALSE,
           sendOk |-> TRUE]

ReadEvent(line, ok) == [op |-> "read", line |-> line, ok |-> ok]
WriteEvent(line, ok) == [op |-> "write", line |-> line, ok |-> ok]

ZeroResult(p0, p1) ==
    [player |-> [s \in Slots |-> IF s = 0 THEN p0 ELSE p1],
     score |-> [s \in Slots |-> 0],
     failed |-> [s \in Slots |-> FALSE],
     points |-> [s \in Slots |-> 0],
     time |-> [s \in Slots |-> 0]]

\* numResults counting every pairing, a player against itself included.
NumResultsWithSelf(np, rnds, single) == IF single THEN 1 ELSE rnds * np * np

\* numResults of runTournament.
NumResults(np, rnds, single) == IF single THEN 1 ELSE rnds * np * (np - 1)

\* main's validation of the command line.
ValidConfig(np, rnds, single) ==
    /\ np >= 2
    /\ rnds >= 1
    /\ ~(single /\ (np > 2 \/ rnds > 1))

Init ==
    /\ numPlayers \in 2 .. MaxPlayers
    /\ rounds \in 1 .. MaxRounds
    /\ firstOnly \in BOOLEAN
    /\ initialPile \in 1 .. MaxPile
    /\ ValidConfig(numPlayers, rounds, firstOnly)
    /\ NumResults(numPlayers, rounds, firstOnly) * initialPile <= MaxWork
    /\ pc = "tournament"
    /\ r = 0 /\ i = 0 /\ j = 0 /\ n = 0
    /\ results = [x \in 1 .. NumResults(numPlayers, rounds, firstOnly) |->
                      ZeroResult(0, 0)]
    /\ result = ZeroResult(0, 0)
    /\ cmds = [s \in Slots |-> "nil"]
    /\ writers = [s \in Slots |-> "nil"]
    /\ readers = [s \in Slots |-> "nil"]
    /\ gamestate = CreateState(0)
    /\ over = TRUE
    /\ k = 0
    /\ alive = {}
    /\ io = [s \in Slots |-> <<>>]
    /\ lastTurn = NoTurn
    /\ history = <<>>
    /\ turns = 0
    /\ numGames = 0
    /\ totalPoints = <<>> /\ gamesWon = <<>> /\ gamesTied = <<>>
    /\ gamesLost = <<>> /\ gamesFailed = <<>>
    /\ timeUsed = <<>> /\ timeMax = <<>>
    /\ winLoss = <<>> /\ pairScore = <<>>
    /\ pointsPlayers = <<>>

\* ---------------------------------------------------------------- runTournament
\* The skip test left out: every pairing is played.
NoSkip(a, b) == TRUE

\* The skip test of the inner loop: a player does not meet itself.
Distinct(a, b) == a # b

\* runTournament line 257-260: loop control up to the next pairing.
Advance ==
    /\ pc = "tournament"
    /\ r < rounds
    /\ IF i >= numPlayers THEN r' = r + 1 /\ i' = 0 /\ j' = 0
       ELSE IF j >= numPlayers THEN i' = i + 1 /\ j' = 0 /\ r' = r
       ELSE ~Distinct(i, j) /\ j' = j + 1 /\ UNCHANGED <<r, i>>
    /\ UNCHANGED <<config, mainvars, pc, n, results, result, cmds, writers,
                   readers, gamestate, over, k, alive, io, lastTurn, history,
                   turns>>

\* runTournament line 275 calling runMatch line 113-118.
BeginMatch ==
    /\ pc = "tournament"
    /\ r < rounds /\ i < numPlayers /\ j < numPlayers
    /\ Distinct(i, j)
    /\ result' = ZeroResult(i, j)
    /\ cmds' = [s \in Slots |-> "nil"]
    /\ writers' = [s \in Slots |-> "nil"]
    /\ readers' = [s \in Slots |-> "nil"]
    /\ io' = [s \in Slots |-> <<>>]
    /\ lastTurn' = NoTurn
    /\ history' = <<>>
    /\ turns' = 0
    /\ k' = 0
    /\ pc' = "spawn"
    /\ UNCHANGED <<config, mainvars, loopvars, gamestate, over, alive>>

\* runTournament line 257, 301-304: the loops are exhausted.
ReturnResults ==
    /\ pc = "tournament"
    /\ r >= rounds
    /\ pc' = "main"
    /\ UNCHANGED <<config, mainvars, loopvars, result, cmds, writers, readers,
                   gamestate, over, k, alive, io, lastTurn, history, turns>>

\* ---------------------------------------------------------------- runMatch
\* Start sent to every slot that was launched.
EveryoneGetsStart(s) == TRUE

\* Line 128: only the first slot is sent Start.
GetsStart(s) == s = 0

\* A failed write of Start or Quit marking the slot failed.
SentinelErrorFails(failed, s, wok) ==
    IF wok THEN failed ELSE [failed EXCEPT ![s] = TRUE]

\* Lines 130 and 181: the error of writing Start or Quit is dropped.
SentinelError(failed, s, wok) == failed

\* Line 137: the loop test after the state was (re)read.
LoopOrQuit(ov) == IF ov THEN "quit" ELSE "loop"

\* Lines 120-136: one iteration of the spawn loop; after the second one the
\* game state is created.
SpawnPlayer ==
    /\ pc = "spawn"
    /\ \E outcome \in SpawnOutcomes, wok \in BOOLEAN :
          LET pl == runPlayer(outcome) IN
          /\ (pl.err \/ ~GetsStart(k)) => wok
          /\ IF pl.err
             THEN /\ result' = [result EXCEPT !.failed[k] = TRUE]
                  /\ UNCHANGED <<cmds, writers, readers, alive, io>>
             ELSE /\ cmds' = [cmds EXCEPT ![k] = pl.cmd]
                  /\ writers' = [writers EXCEPT ![k] = pl.stdin]
                  /\ readers' = [readers EXCEPT ![k] = pl.stdout]
                  /\ alive' = alive \cup {<<n, k>>}
                  /\ io' = IF GetsStart(k)
                           THEN [io EXCEPT ![k] = Append(@, WriteEvent(StartLine, wok))]
                           ELSE io
                  /\ result' = [result EXCEPT
                                  !.failed = SentinelError(@, k, wok)]
    /\ IF k = 1
       THEN /\ gamestate' = CreateState(initialPile)
            /\ over' = Over(gamestate')
            /\ pc' = LoopOrQuit(over')
            /\ k' = 0
       ELSE /\ k' = k + 1
            /\ UNCHANGED <<gamestate, over, pc>>
    /\ UNCHANGED <<config, mainvars, loopvars, lastTurn, history, turns>>

\* The failed flag of the mover ignored: every turn reads from the player.
AlwaysReads(failed, p) == FALSE

\* Line 140: a failed mover is not read from.
UsesFallback(failed, p) == failed[p]

\* The forward test without the check that a move was made.
ForwardAnyTurn(moveStr, oppFailed, ov) == ~oppFailed /\ ~ov

\* The forward test without the check that the game goes on.
ForwardLastMove(moveStr, oppFailed, ov) == moveStr # <<>> /\ ~oppFailed

\* The forward test without the check that the opponent has not failed.
ForwardToFailed(moveStr, oppFailed, ov) == moveStr # <<>> /\ ~ov

\* Line 171: is the move of this turn forwarded to the opponent?
ForwardCond(moveStr, oppFailed, ov) == moveStr # <<>> /\ ~oppFailed /\ ~ov

\* The move echoed to the mover itself.
RecipientIsMover(p) == p

\* Line 171-176: the slot a move of mover p is forwarded to.
Recipient(p) == 1 - p

\* Lines 171-176, the tail of an iteration. failed1, io1: the state after
\* the mover's part of the turn; g1, ov1: game state and `over` by then.
Forward(p, kind, move, moveStr, g1, ov1, failed1, time1, io1) ==
    LET q == Recipient(p)
        fwd == ForwardCond(moveStr, failed1[q], ov1)
    IN  \E wok \in BOOLEAN :
          /\ ~fwd => wok
          /\ result' = [result EXCEPT
                          !.failed = IF fwd /\ ~wok
                                     THEN [failed1 EXCEPT ![q] = TRUE]
                                     ELSE failed1,
                          !.time = time1]
          /\ io' = IF fwd
                   THEN [io1 EXCEPT ![q] = Append(@, WriteEvent(Fprintln(moveStr), wok))]
                   ELSE io1
          /\ gamestate' = g1
          /\ over' = ov1
          /\ lastTurn' = [mover |-> p, kind |-> kind, move |-> move,
                          forwarded |-> fwd, sendOk |-> wok]
          /\ history' = IF move # 0
                        THEN Append(history, [mover |-> p, move |-> move])
                        ELSE history
          /\ turns' = turns + 1
          /\ pc' = LoopOrQuit(ov1)

Panic ==
    /\ pc' = "panic"
    /\ UNCHANGED <<result, io, gamestate, over, lastTurn, history, turns>>

\* Lines 137-177: one iteration of the turn loop.
Turn ==
    /\ pc = "loop"
    /\ LET p == EngineNext(gamestate) IN
       IF UsesFallback(result.failed, p)
       THEN \* lines 141-148
            IF ListMoves(gamestate) = {}
            THEN Panic      \* rand.Intn(0)
            ELSE \E move \in ListMoves(gamestate) :
                   LET ex == Execute(gamestate, move) IN
                   IF ~ex[1]
                   THEN Panic   \* "Invalid move generated!"
                   ELSE Forward(p, "fallback", move, MoveString(move), ex[2],
                                Over(ex[2]), result.failed, result.time, io)
       ELSE \* lines 150-169
            \E resp \in Responses :
               LET time1 == [result.time EXCEPT ![p] = @ + ReadTicks]
                   io1 == [io EXCEPT ![p] = Append(@, ReadEvent(resp, resp # ReadError))]
                   fail1 == [result.failed EXCEPT ![p] = TRUE]
               IN
               IF resp = ReadError
               THEN Forward(p, "readError", 0, <<>>, gamestate, over, fail1, time1, io1)
               ELSE LET line == SubSeq(resp, 1, Len(resp) - 1)
                        parsed == ParseMove(line)
                        ex == Execute(gamestate, parsed[1])
                    IN  IF ~parsed[2]
                        THEN Forward(p, "parseError", 0, <<>>, gamestate, over,
                                     fail1, time1, io1)
                        ELSE IF ~ex[1]
                        THEN Forward(p, "illegal", 0, <<>>, ex[2], over,
                                     fail1, time1, io1)
                        ELSE Forward(p, "move", parsed[1], MoveString(parsed[1]),
                                     ex[2], Over(ex[2]), result.failed, time1, io1)
    /\ UNCHANGED <<config, mainvars, loopvars, cmds, writers, readers, k, alive>>

\* Lines 180-183: one iteration of the Quit loop.
QuitPlayer ==
    /\ pc = "quit"
    /\ IF writers[k] = "nil"
       THEN \* method call on a nil io.WriteCloser
            /\ pc' = "panic"
            /\ UNCHANGED <<io, writers, k, result>>
       ELSE \E wok \in BOOLEAN :
            /\ io' = [io EXCEPT ![k] = Append(@, WriteEvent(QuitLine, wok))]
            /\ result' = [result EXCEPT
                            !.failed = SentinelError(@, k, wok)]
            /\ writers' = [writers EXCEPT ![k] = "closed"]
            /\ k' = IF k = 1 THEN 0 ELSE k + 1
            /\ pc' = IF k = 1 THEN "wait" ELSE "quit"
    /\ UNCHANGED <<config, mainvars, loopvars, cmds, readers,
                   gamestate, over, alive, lastTurn, history, turns>>

\* The process left running: no Wait.
NotWaited(al, m, s) == al

\* Line 187: cmd.Wait() returns when the process of slot s has exited.
AfterWait(al, m, s) == al \ {<<m, s>>}

\* Lines 186-188: one iteration of the Wait loop.
WaitPlayer ==
    /\ pc = "wait"
    /\ IF cmds[k] = "nil"
       THEN \* cmd.Wait() on a nil *exec.Cmd
            /\ pc' = "panic"
            /\ UNCHANGED <<cmds, alive, k>>
       ELSE /\ cmds' = [cmds EXCEPT ![k] = "waited"]
            /\ alive' = AfterWait(alive, n, k)
            /\ k' = IF k = 1 THEN 0 ELSE k + 1
            /\ pc' = IF k = 1 THEN "finish" ELSE "wait"
    /\ UNCHANGED <<config, mainvars, loopvars, result, writers, readers,
                   gamestate, over, io, lastTurn, history, turns>>

\* Points with the bonus given on equal scores too.
PointsTieBonus(failed, score, s) ==
    IF ~failed[s]
    THEN 1 + (IF score[s] >= score[1 - s] THEN 1 ELSE 0)
    ELSE 0

\* Lines 196-201: competition points of slot s.
Points(failed, score, s) ==
    IF ~failed[s]
    THEN 1 + (IF score[s] > score[1 - s] THEN 1 ELSE 0)
    ELSE 0

\* The Result built afresh at the end, the failed flags lost.
FinalResultFresh(res, g) ==
    LET sc == Scores(g) IN
    [ZeroResult(res.player[0], res.player[1]) EXCEPT
        !.score = sc,
        !.points = [s \in Slots |-> Points(res.failed, sc, s)],
        !.time = res.time]

\* Lines 191-202: the Result runMatch returns.
FinalResult(res, g) ==
    LET sc == Scores(g) IN
    [res EXCEPT !.score = sc,
                !.points = [s \in Slots |-> Points(res.failed, sc, s)]]

\* runMatch lines 190-234 and runTournament lines 292-296.
FinishMatch ==
    /\ pc = "finish"
    /\ result' = FinalResult(result, gamestate)
    /\ IF n + 1 > Len(results)
       THEN /\ pc' = "panic"     \* index out of range
            /\ UNCHANGED <<r, i, j, n, results>>
       ELSE /\ results' = [results EXCEPT ![n + 1] = result']
            /\ n' = n + 1
            /\ IF firstOnly
               THEN pc' = "main" /\ UNCHANGED <<r, i, j>>
               ELSE pc' = "tournament" /\ j' = j + 1 /\ UNCHANGED <<r, i>>
    /\ UNCHANGED <<config, mainvars, cmds, writers, readers, gamestate, over,
                   k, alive, io, lastTurn, history, turns>>

\* ---------------------------------------------------------------- main
Players == 0 .. numPlayers - 1

\* numGames for one side only.
NumGamesOneSide(np, rnds, single) == IF single THEN 1 ELSE rnds * (np - 1)

\* Lines 348-351: numGames, per player.
NumGames(np, rnds, single) == IF single THEN 1 ELSE rnds * (np - 1) * 2

\* Lines 354-366: the statistics before any result is added.
ZeroStats(np) ==
    LET zeros == [p \in 0 .. np - 1 |-> 0] IN
    [totalPoints |-> zeros, gamesWon |-> zeros, gamesTied |-> zeros,
     gamesLost |-> zeros, gamesFailed |-> zeros, timeUsed |-> zeros,
     timeMax |-> zeros,
     winLoss |-> [p \in 0 .. np - 1 |-> zeros],
     pairScore |-> [p \in 0 .. np - 1 |-> zeros]]

\* Lines 369-389: the body of the inner loop, for side s of one result.
AddSide(st, res, s) ==
    LET player == res.player[s]
        opponent == res.player[1 - s]
        won == res.score[s] > res.score[1 - s]
    IN  [st EXCEPT
           !.totalPoints[player] = @ + res.points[s],
           !.pairScore[player][opponent] = @ + res.score[s],
           !.gamesFailed[player] = IF res.failed[s] THEN @ + 1 ELSE @,
           !.gamesWon[player] = IF won THEN @ + 1 ELSE @,
           !.winLoss[player][opponent] = IF won THEN @ + 1 ELSE @,
           !.gamesTied[player] =
               IF res.score[s] = res.score[1 - s] THEN @ + 1 ELSE @,
           !.gamesLost[player] =
               IF res.score[s] < res.score[1 - s] THEN @ + 1 ELSE @,
           !.timeUsed[player] = @ + res.time[s],
           !.timeMax[player] = IF res.time[s] > @ THEN res.time[s] ELSE @]

\* Lines 367-391: the loop over results, from index x on.
RECURSIVE Collect(_, _, _)
Collect(st, rs, x) ==
    IF x > Len(rs) THEN st
    ELSE Collect(AddSide(AddSide(st, rs[x], 0), rs[x], 1), rs, x + 1)

\* Lines 347-391: runTournament has returned; main collects the statistics.
Aggregate ==
    /\ pc = "main"
    /\ numGames' = NumGames(numPlayers, rounds, firstOnly)
    /\ LET st == Collect(ZeroStats(numPlayers), results, 1) IN
       /\ totalPoints' = st.totalPoints
       /\ gamesWon' = st.gamesWon
       /\ gamesTied' = st.gamesTied
       /\ gamesLost' = st.gamesLost
       /\ gamesFailed' = st.gamesFailed
       /\ timeUsed' = st.timeUsed
       /\ timeMax' = st.timeMax
       /\ winLoss' = st.winLoss
       /\ pairScore' = st.pairScore
    /\ pc' = "report"
    /\ UNCHANGED <<config, loopvars, result, cmds, writers, readers,
                   gamestate, over, k, alive, io, lastTurn, history, turns,
                   pointsPlayers>>

\* Lines 393-399: -quiet, one row per player in the original order.
BriefReport ==
    /\ pc = "report"
    /\ pc' = "done"
    /\ UNCHANGED <<config, mainvars, loopvars, result, cmds, writers, readers,
                   gamestate, over, k, alive, io, lastTurn, history, turns>>

\* The pair of a player with the index not negated.
PlainPair(points, idx) == [first |-> points, second |-> idx]

\* Line 405: IntPair{totalPoints[i], -i}.
MakePair(points, idx) == [first |-> points, second |-> 0 - idx]

\* Lines 66-69: IntPairSlice.Less on two elements.
Less(a, b) ==
    a.first < b.first \/ (a.first = b.first /\ a.second < b.second)

\* Lines 70-72: IntPairSlice.Swap, on 1-based positions.
Swap(ips, x, y) == [ips EXCEPT ![x] = ips[y], ![y] = ips[x]]

\* sort.Sort(pointsPlayers): ascending by Less, here by insertion.
RECURSIVE SinkDown(_, _)
SinkDown(ips, x) ==
    IF x > 1 /\ Less(ips[x], ips[x - 1])
    THEN SinkDown(Swap(ips, x, x - 1), x - 1)
    ELSE ips
RECURSIVE SortFrom(_, _)
SortFrom(ips, x) ==
    IF x > Len(ips) THEN ips ELSE SortFrom(SinkDown(ips, x), x + 1)
Sort(ips) == SortFrom(ips, 2)

\* Lines 74-78: IntPairSlice.Reverse, the loop from both ends.
RECURSIVE ReverseFrom(_, _, _)
ReverseFrom(ips, lo, hi) ==
    IF lo < hi THEN ReverseFrom(Swap(ips, lo, hi), lo + 1, hi - 1) ELSE ips
Reverse(ips) == ReverseFrom(ips, 1, Len(ips))

\* Lines 402-420: the verbose report ranks the players.
VerboseReport ==
    /\ pc = "report"
    /\ pointsPlayers' =
          Reverse(Sort([x \in 1 .. numPlayers |->
                           MakePair(totalPoints[x - 1], x - 1)]))
    /\ pc' = "done"
    /\ UNCHANGED <<config, loopvars, result, cmds, writers, readers,
                   gamestate, over, k, alive, io, lastTurn, history, turns,
                   numGames, totalPoints, gamesWon, gamesTied, gamesLost,
                   gamesFailed, timeUsed, timeMax, winLoss, pairScore>>

Next ==
    \/ Advance
    \/ BeginMatch
    \/ ReturnResults
    \/ SpawnPlayer
    \/ Turn
    \/ QuitPlayer
    \/ WaitPlayer
    \/ FinishMatch
    \/ Aggregate
    \/ BriefReport
    \/ VerboseReport

Spec == Init /\ [][Next]_vars

\* The arbiter is one sequential process: while every blocking read and
\* every Wait returns, it takes its next step.
FairSpec == Spec /\ WF_vars(Next)

\* ---------------------------------------------------------------- properties
InMatch == pc \in {"spawn", "loop", "quit", "wait", "finish"}

\* Slot s could not be launched: runPlayer returned an error for it.
SpawnFailed(s) ==
    /\ pc \in {"spawn", "loop", "quit", "wait", "finish", "panic"}
    /\ (pc = "spawn" => k > s)
    /\ cmds[s] = "nil"
    /\ result.failed[s]

IsWrite(e, line) == e.op = "write" /\ e.line = line
Count(seq, line) == Cardinality({x \in 1 .. Len(seq) : IsWrite(seq[x], line)})

\* C1: a player that cannot be launched does not abort the match: the turn
\* loop, the shutdown and the return of runMatch all happen, so the arbiter
\* never panics in a match with a slot that failed to launch.
C1_SpawnFailureDoesNotAbort ==
    \A s \in Slots : SpawnFailed(s) => pc # "panic"

\* C2: once runMatch is left, on any path, every process it spawned has been
\* sent Quit exactly once, had its input closed and been waited for.
C2_ReleasedOnEveryPath ==
    pc \in {"finish", "tournament", "main", "panic"} =>
        /\ alive = {}
        /\ \A s \in Slots :
              cmds[s] # "nil" =>
                 /\ cmds[s] = "waited"
                 /\ writers[s] = "closed"
                 /\ Count(io[s], QuitLine) = 1

\* C3: in every Match Result a failed player has 0 points, any other player
\* has 1 point plus 1 more exactly when its score is strictly the higher.
C3_Points ==
    \A x \in 1 .. n : \A s \in Slots :
        LET res == results[x] IN
        /\ res.points[s] \in {0, 1, 2}
        /\ res.failed[s] => res.points[s] = 0
        /\ (~res.failed[s] /\ res.score[s] > res.score[1 - s]) => res.points[s] = 2
        /\ (~res.failed[s] /\ res.score[s] <= res.score[1 - s]) => res.points[s] = 1

\* A failed player with the higher score, and a tie between two players that
\* did not fail, are both among the results.
C3_Witness ==
    /\ \E x \in 1 .. n : \E s \in Slots :
          results[x].failed[s] /\ results[x].score[s] > results[x].score[1 - s]
    /\ \E x \in 1 .. n :
          /\ results[x].score[0] = results[x].score[1]
          /\ ~results[x].failed[0] /\ ~results[x].failed[1]

\* The pairing of the x-th match (x = 1, 2, ...) in the order round, first
\* player, second player, a player never meeting itself.
PairAt(x) ==
    LET q == (x - 1) % (numPlayers * (numPlayers - 1))
        a == q \div (numPlayers - 1)
        c == q % (numPlayers - 1)
    IN  [s \in Slots |-> IF s = 0 THEN a ELSE IF c < a THEN c ELSE c + 1]
RoundAt(x) == (x - 1) \div (numPlayers * (numPlayers - 1))

\* The results of round rd in which a moved first against b.
Meetings(rd, a, b) ==
    {x \in 1 .. n : /\ RoundAt(x) = rd
                    /\ results[x].player[0] = a
                    /\ results[x].player[1] = b}

\* C4: when runTournament returns, it has run r*n*(n-1) matches (1 in single
\* mode), the results array has exactly that length, and every slot of it
\* was filled by a match between two different players.
C4_MatchCount ==
    /\ n <= Len(results)
    /\ (InMatch => n < Len(results))
    /\ pc = "main" =>
          /\ n = (IF firstOnly THEN 1
                  ELSE rounds * numPlayers * (numPlayers - 1))
          /\ Len(results) = n
          /\ \A x \in 1 .. n : results[x].player[0] # results[x].player[1]

\* A tournament of two rounds and one of three players have returned.
C4_Witness ==
    /\ pc = "main"
    /\ ~firstOnly
    /\ n = rounds * numPlayers * (numPlayers - 1)
    /\ n >= 4

\* C5 as stated: when runTournament returns, in every round every ordered
\* pair of distinct players has met exactly once, and the k-th result is
\* the k-th match in the order (round, i, j).
C5_EveryPairEveryRound ==
    /\ \A x \in 1 .. n : results[x].player = PairAt(x)
    /\ pc = "main" =>
          \A rd \in 0 .. rounds - 1 : \A a, b \in 0 .. numPlayers - 1 :
              a # b => Cardinality(Meetings(rd, a, b)) = 1

\* C5 amended: the k-th result is always the k-th match in the order
\* (round, i, j), no player meets itself, the match being played is the
\* next one in that order; and, unless in single mode, when runTournament
\* returns every ordered pair of distinct players has met exactly once in
\* every round.
C5_PairOrder ==
    /\ \A x \in 1 .. n : results[x].player = PairAt(x)
    /\ InMatch => /\ result.player = PairAt(n + 1)
                  /\ r = RoundAt(n + 1)
    /\ (pc = "main" /\ ~firstOnly) =>
          \A rd \in 0 .. rounds - 1 : \A a, b \in 0 .. numPlayers - 1 :
              a # b => Cardinality(Meetings(rd, a, b)) = 1
    /\ (pc = "main" /\ firstOnly) => n = 1

\* A tournament of three players has returned: six pairings in order.
C5_Witness ==
    /\ pc = "main"
    /\ numPlayers = 3
    /\ n = 6
    /\ results[3].player[0] = 1 /\ results[3].player[1] = 0
    /\ results[6].player[0] = 2 /\ results[6].player[1] = 1

FailKinds == {"readError", "parseError", "illegal"}

\* This step is an iteration of the turn loop with mover p.
TurnOf(p) == pc = "loop" /\ EngineNext(gamestate) = p /\ lastTurn' # lastTurn

\* A move line written to slot s (not a sentinel).
IsMoveWrite(e) == e.op = "write" /\ e.line \notin {StartLine, QuitLine}
Reads(seq) == {x \in 1 .. Len(seq) : seq[x].op = "read"}
MoveWrites(seq) == {x \in 1 .. Len(seq) : IsMoveWrite(seq[x])}

\* C6: on the turn that first detects a failure of the mover (read error,
\* unparsable line, rejected move) the mover becomes failed, the game state
\* does not change and nothing is written to the opponent; the same player
\* is the mover of the next turn, and that turn applies a fallback move.
C6_DetectionTurnAppliesNoMove ==
    [][\A p \in Slots :
         /\ (pc = "loop" /\ EngineNext(gamestate) = p
               /\ ~result.failed[p] /\ result'.failed[p]) =>
              /\ gamestate' = gamestate
              /\ over' = over
              /\ io'[1 - p] = io[1 - p]
              /\ lastTurn'.kind \in FailKinds
              /\ lastTurn'.move = 0
              /\ ~lastTurn'.forwarded
              /\ pc' = "loop"
              /\ EngineNext(gamestate') = p
         /\ (pc = "loop" /\ lastTurn.kind \in FailKinds /\ lastTurn.mover = p
               /\ lastTurn' # lastTurn) =>
              /\ lastTurn'.mover = p
              /\ lastTurn'.kind = "fallback"
              /\ lastTurn'.move \in ListMoves(gamestate)
              /\ gamestate' # gamestate
      ]_vars

\* A player was read from, failed on that turn, and has since been moved
\* for by a fallback move.
C6_Witness ==
    /\ lastTurn.kind = "fallback"
    /\ \E x \in 1 .. Len(io[lastTurn.mover]) :
          LET e == io[lastTurn.mover][x] IN
          e.op = "read" /\ e.line = <<"3", NL>>
    /\ readers[lastTurn.mover] = "open"

\* C7: every turn whose mover is already failed applies exactly one move of
\* the engine's current legal-move set, which the engine accepts, and reads
\* nothing from that player.
C7_FailedMoverGetsLegalMove ==
    [][\A p \in Slots :
         (pc = "loop" /\ EngineNext(gamestate) = p /\ result.failed[p]
            /\ vars' # vars) =>
              /\ pc' # "panic"
              /\ lastTurn'.kind = "fallback"
              /\ lastTurn'.mover = p
              /\ lastTurn'.move \in ListMoves(gamestate)
              /\ Execute(gamestate, lastTurn'.move)[1]
              /\ gamestate' = Execute(gamestate, lastTurn'.move)[2]
              /\ io'[p] = io[p]
              /\ result'.time[p] = result.time[p]
      ]_vars

\* Two fallback moves in a row were made for the same failed player's side
\* and the other side: both players failed, the game went on to its end.
C7_Witness ==
    /\ pc = "quit"
    /\ lastTurn.kind = "fallback"
    /\ result.failed[0] /\ result.failed[1]
    /\ gamestate.pile = 0

\* A forwarded move could not be written to slot s.
SendFailedTo(s) ==
    \E x \in 1 .. Len(io[s]) : IsMoveWrite(io[s][x]) /\ ~io[s][x].ok

\* C8: when the write of a forwarded move fails, the recipient becomes
\* failed and the mover's flag is left alone, the move stays applied, and
\* for the rest of the match the recipient stays failed and its turns are
\* fallback moves.
C8_SendFailureFailsRecipient ==
    [][\A p \in Slots :
         /\ (TurnOf(p) /\ lastTurn'.forwarded /\ ~lastTurn'.sendOk) =>
              /\ result'.failed[1 - p]
              /\ result'.failed[p] = result.failed[p]
              /\ lastTurn'.move # 0
              /\ gamestate' = Execute(gamestate, lastTurn'.move)[2]
              /\ gamestate' # gamestate
         /\ (InMatch /\ SendFailedTo(p)) => result.failed[p]
         /\ (InMatch /\ SendFailedTo(p) /\ pc' # "tournament") =>
              result'.failed[p]
         /\ (TurnOf(p) /\ SendFailedTo(p)) =>
              /\ lastTurn'.kind = "fallback"
              /\ io'[p] = io[p]
      ]_vars

\* After a failed forward to a slot, that slot's own turn came and was
\* played as a fallback move; the sender is not failed.
C8_Witness ==
    /\ lastTurn.kind = "fallback"
    /\ SendFailedTo(lastTurn.mover)
    /\ ~result.failed[1 - lastTurn.mover]
    /\ Reads(io[lastTurn.mover]) = {}

\* C9: in every turn, a line is written to the opponent exactly when a move
\* was applied in this turn, the game is not over after it and the opponent
\* is not failed; the line is the canonical text of that move; nothing else
\* is written to either player during the turn.
C9_ForwardIff ==
    [][\A p \in Slots :
         TurnOf(p) =>
            LET q == 1 - p
                applied == gamestate' # gamestate
                written == io'[q] # io[q]
            IN  /\ written <=> (applied /\ ~Over(gamestate') /\ ~result.failed[q])
                /\ written <=> lastTurn'.forwarded
                /\ applied <=> lastTurn'.move # 0
                /\ written =>
                     /\ Len(io'[q]) = Len(io[q]) + 1
                     /\ SubSeq(io'[q], 1, Len(io[q])) = io[q]
                     /\ io'[q][Len(io'[q])].op = "write"
                     /\ io'[q][Len(io'[q])].line =
                           MoveString(lastTurn'.move) \o <<NL>>
                /\ Over(gamestate') => ~written
                /\ MoveWrites(io'[p]) = MoveWrites(io[p])
      ]_vars

\* A move was forwarded earlier in the match, and the move that ended the
\* game was not, although the opponent is not failed.
C9_Witness ==
    /\ pc = "quit"
    /\ lastTurn.move # 0
    /\ ~lastTurn.forwarded
    /\ ~result.failed[1 - lastTurn.mover]
    /\ MoveWrites(io[0]) \cup MoveWrites(io[1]) # {}

\* The slots have been through the spawn loop of this match.
Spawned == pc \in {"loop", "quit", "wait", "finish"}

\* C10 as stated: in every match Start is sent exactly once, to slot 0 and
\* never to slot 1, before the first read from slot 0 and before any move
\* is forwarded to slot 0.
C10_StartExactlyOnce ==
    /\ Count(io[1], StartLine) = 0
    /\ Spawned => Count(io[0], StartLine) = 1
    /\ io[0] # <<>> => IsWrite(io[0][1], StartLine)

\* C10 amended: Start is sent exactly once in every match whose slot 0 was
\* launched and not at all when slot 0 could not be launched; never to
\* slot 1; it is the first thing on slot 0's pipes, before any read from it
\* and any move forwarded to it.
C10_StartOnceIfLaunched ==
    /\ Count(io[1], StartLine) = 0
    /\ Spawned => Count(io[0], StartLine) = (IF cmds[0] = "nil" THEN 0 ELSE 1)
    /\ io[0] # <<>> => IsWrite(io[0][1], StartLine)
    /\ \A x \in 2 .. Len(io[0]) : ~IsWrite(io[0][x], StartLine)

\* Slot 0 got Start, then was read from, then got a forwarded move.
C10_Witness ==
    /\ Len(io[0]) >= 3
    /\ IsWrite(io[0][1], StartLine)
    /\ io[0][2].op = "read"
    /\ IsMoveWrite(io[0][3])
    /\ io[1] # <<>>

\* C11: once the game is terminal the shutdown runs to its end for both
\* slots: the arbiter does not abort after the turn loop, when the scores
\* are read both slots have been sent Quit exactly once, closed and waited
\* for, and Quit is the last thing on a slot's pipes (no read, no forward
\* after it).
C11_QuitBeforeScores ==
    /\ Over(gamestate) => pc # "panic"
    /\ pc = "finish" =>
          \A s \in Slots : /\ Count(io[s], QuitLine) = 1
                           /\ writers[s] = "closed"
                           /\ cmds[s] = "waited"
    /\ \A s \in Slots : \A x \in 1 .. Len(io[s]) :
          IsWrite(io[s][x], QuitLine) => x = Len(io[s])

\* The engine breaks its contract in state g: the game is not over and there
\* is no legal move, or a listed move is rejected.
EngineViolation(g) ==
    /\ ~Over(g)
    /\ \/ ListMoves(g) = {}
       \/ \E m \in ListMoves(g) : ~Execute(g, m)[1]

\* C12: the arbiter aborts only on an engine-contract violation; no failure
\* of a player, a failure to launch it included, aborts the process.
C12_AbortOnlyOnEngineViolation ==
    pc = "panic" => EngineViolation(gamestate)

\* The player ranked at position x.
Ranked(x) == 0 - pointsPlayers[x].second

\* C13: the ranking lists every player exactly once, by descending total
\* points, players of equal points by ascending index.
C13_Ranking ==
    (pc = "done" /\ pointsPlayers # <<>>) =>
        /\ Len(pointsPlayers) = numPlayers
        /\ \A p \in Players :
              Cardinality({x \in 1 .. numPlayers : Ranked(x) = p}) = 1
        /\ \A x \in 1 .. numPlayers :
              /\ Ranked(x) \in Players
              /\ pointsPlayers[x].first = totalPoints[Ranked(x)]
        /\ \A x, y \in 1 .. numPlayers :
              x < y =>
                 \/ totalPoints[Ranked(x)] > totalPoints[Ranked(y)]
                 \/ /\ totalPoints[Ranked(x)] = totalPoints[Ranked(y)]
                    /\ Ranked(x) < Ranked(y)

\* Three players were ranked: the last one leads, the first two are level.
C13_Witness ==
    /\ pc = "done"
    /\ Len(pointsPlayers) = 3
    /\ Ranked(1) = 2 /\ Ranked(2) = 0 /\ Ranked(3) = 1
    /\ totalPoints[0] = totalPoints[1]
    /\ totalPoints[2] > totalPoints[0]

\* A write to slot s failed.
WriteFailedTo(s) ==
    \E x \in 1 .. Len(io[s]) : io[s][x].op = "write" /\ ~io[s][x].ok

\* C14 as stated: a write error on any line sent to a slot, Start and Quit
\* included, makes that slot failed.
C14_AnyWriteErrorFails ==
    \A s \in Slots : (InMatch /\ WriteFailedTo(s)) => result.failed[s]

\* C14 amended: a write error on a forwarded move makes the recipient
\* failed; a write error on Start or on Quit is dropped and changes no
\* failed flag.
C14_OnlyForwardErrorFails ==
    [][\A s \in Slots :
         (pc # "tournament" /\ Len(io'[s]) = Len(io[s]) + 1) =>
            LET e == io'[s][Len(io'[s])] IN
            (e.op = "write" /\ ~e.ok) =>
                IF IsMoveWrite(e)
                THEN result'.failed[s]
                ELSE /\ e.line \in {StartLine, QuitLine}
                     /\ result'.failed = result.failed
      ]_vars

\* The write of Quit to a slot failed, and the slot ended the match not
\* failed, with the two points of a winner.
C14_Witness ==
    \E s \in Slots :
       /\ pc \in {"tournament", "main"}
       /\ n >= 1
       /\ \E x \in 1 .. Len(io[s]) : IsWrite(io[s][x], QuitLine) /\ ~io[s][x].ok
       /\ ~results[n].failed[s]
       /\ results[n].points[s] = 2

\* C15: within a match the failed flag of a slot, once true, is never set
\* back to false, and the Result stored for the match reports it as true.
C15_FailedIsMonotonic ==
    [][\A s \in Slots :
         (InMatch /\ result.failed[s]) =>
            /\ result'.failed[s]
            /\ (pc = "finish" /\ pc' # "panic") =>
                  /\ n' = n + 1
                  /\ results'[n'].failed[s]
      ]_vars

\* A slot failed on its first read, the match went on for at least two
\* more turns, and the stored Result reports the slot as failed.
C15_Witness ==
    \E s \in Slots :
       /\ pc \in {"tournament", "main"}
       /\ n >= 1
       /\ turns >= 3
       /\ Reads(io[s]) # {}
       /\ \A x \in Reads(io[s]) : ~io[s][x].ok
       /\ results[n].failed[s]

\* C16: matches run one at a time with fresh processes: at most two player
\* processes are alive, all of the current match; between matches none is
\* alive, so the processes of a match are waited for before the next match
\* spawns any; a match starts with no process and no pipe in its slots.
C16_OneMatchAtATime ==
    /\ Cardinality(alive) <= 2
    /\ \A a \in alive :
          /\ a[1] = n
          /\ a[2] \in Slots
          /\ cmds[a[2]] = "running"
          /\ pc \in {"spawn", "loop", "quit", "wait", "panic"}
    /\ pc \in {"tournament", "finish", "main", "report", "done"} => alive = {}
    /\ (pc = "spawn" /\ k = 0) =>
          /\ alive = {}
          /\ \A s \in Slots :
                cmds[s] = "nil" /\ writers[s] = "nil" /\ readers[s] = "nil"
    /\ \A s \in Slots : (InMatch /\ cmds[s] = "running") => <<n, s>> \in alive

\* Both processes of the second match are alive, those of the first match
\* are gone.
C16_Witness ==
    /\ n = 1
    /\ pc = "loop"
    /\ alive = {<<1, 0>>, <<1, 1>>}

\* The results in which player p took part.
GamesOf(p) ==
    {x \in 1 .. Len(results) :
        results[x].player[0] = p \/ results[x].player[1] = p}

\* C17: for every player, numGames (2*rounds*(n-1), or 1 in single mode) is
\* the number of results the player appears in, and equals its
\* gamesWon + gamesTied + gamesLost after the aggregation.
C17_NumGames ==
    pc \in {"report", "done"} =>
        /\ numGames = (IF firstOnly THEN 1 ELSE 2 * rounds * (numPlayers - 1))
        /\ \A p \in Players :
              /\ numGames = Cardinality(GamesOf(p))
              /\ numGames = gamesWon[p] + gamesTied[p] + gamesLost[p]

\* The statistics of a tournament with four games per player: some player
\* has won and lost games, some player has a failed game.
C17_Witness ==
    /\ pc = "report"
    /\ numGames = 4
    /\ \E p \in Players :
          gamesWon[p] >= 1 /\ gamesLost[p] >= 1
    /\ \E p \in Players : gamesFailed[p] >= 1

\* The events on a slot's pipes that carry a move.
CarriesMove(e) == e.line \notin {StartLine, QuitLine}
MoveEvents(s) == SelectSeq(io[s], CarriesMove)

\* The move a player's program makes of a line it reads or writes.
MoveOfLine(line) ==
    IF line = <<>> THEN <<0, FALSE>>
    ELSE ParseMove(SubSeq(line, 1, Len(line) - 1))

\* C18: whenever the arbiter is about to read from a player p that is not
\* failed, the moves applied to the game state so far are, in order, exactly
\* the moves read from p and the moves written to p's input: p has seen
\* every move of its opponent, fallback moves included.
C18_MoverHasSeenEveryMove ==
    \A p \in Slots :
       (pc = "loop" /\ EngineNext(gamestate) = p /\ ~result.failed[p]) =>
          LET ev == MoveEvents(p) IN
          /\ Len(ev) = Len(history)
          /\ \A x \in 1 .. Len(ev) :
                /\ ev[x].ok
                /\ ev[x].line # <<>>
                /\ ev[x].line[Len(ev[x].line)] = NL
                /\ MoveOfLine(ev[x].line) = <<history[x].move, TRUE>>
                /\ history[x].mover = (IF ev[x].op = "read" THEN p ELSE 1 - p)

\* The arbiter is about to read from a player that has been forwarded a
\* fallback move made for its failed opponent.
C18_Witness ==
    \E p \in Slots :
       /\ pc = "loop"
       /\ EngineNext(gamestate) = p
       /\ ~result.failed[p]
       /\ result.failed[1 - p]
       /\ cmds[1 - p] = "running"
       /\ lastTurn.kind = "fallback"
       /\ Len(history) >= 2

\* Iterations of the turn loop that applied no move.
IdleTurns == turns - Len(history)

\* C19: at most two iterations of the turn loop apply no move, at most one
\* per player, so the loop takes at most M + 2 iterations for M accepted
\* moves; and every match that starts reaches the shutdown and returns a
\* Result to runTournament.
C19_MatchTerminates ==
    /\ [](/\ IdleTurns <= 2
          /\ IdleTurns <= Cardinality({s \in Slots : result.failed[s]})
          /\ turns <= Len(history) + 2)
    /\ (pc = "spawn") ~> (pc \in {"tournament", "main"})

\* C20: once a slot is marked failed, every later step of the match leaves
\* its elapsed time alone and does no I/O on it except the one Quit write of
\* the shutdown: no read, no forwarded move; and the Result that runMatch
\* returns carries that same elapsed time.
C20_FailedSlotIsLeftAlone ==
    [][\A s \in Slots :
         (InMatch /\ result.failed[s]) =>
            /\ result'.time[s] = result.time[s]
            /\ \/ io'[s] = io[s]
               \/ /\ pc = "quit"
                  /\ \E ok \in BOOLEAN :
                        io'[s] = Append(io[s], WriteEvent(QuitLine, ok))
            /\ (pc = "finish" /\ pc' # "panic") =>
                  results'[n'].time[s] = result.time[s]
      ]_vars

\* A match is shutting down in which slot s failed on its first read: the
\* opponent has since made a move that did not end the game, and slot s has
\* been read once, sent no move, charged for that one read, and sent Quit.
C20_Witness ==
    \E s \in Slots :
       /\ pc \in {"wait", "finish"}
       /\ result.failed[s] /\ ~result.failed[1 - s]
       /\ Cardinality(Reads(io[s])) = 1
       /\ \A x \in Reads(io[s]) : ~io[s][x].ok
       /\ MoveWrites(io[s]) = {}
       /\ Count(io[s], QuitLine) = 1
       /\ result.time[s] = ReadTicks
       /\ \E x \in 1 .. Len(history) - 1 : history[x].mover = 1 - s

====
